---- MODULE Spec2Model ----
(***************************************************************************)
(* A model of the Claudian plugin's core logic:                            *)
(*   - McpService.getActiveServers             (MCP server registry)       *)
(*   - isSessionExpiredError                    (session recovery)         *)
(*   - resolveRealPath / isPathWithinVault /                               *)
(*     isPathInAllowedExportPaths               (path containment)         *)
(*   - SettingsStorage.load / save              (settings persistence)     *)
(*   - InlineEditService                        (inline edit sessions)     *)
(*   - createReadOnlyHook / READ_ONLY_TOOLS     (read-only tools)          *)
(*   - parseEnvironmentVariables                (environment text)         *)
(*   - buildContextFromHistory                  (history reconstruction)   *)
(* Each subsystem has its own variables, actions and specification; the    *)
(* variables of the other subsystems stay at their idle values.            *)
(***************************************************************************)
EXTENDS Integers, Sequences, FiniteSets, TLC

\* The value of a JavaScript null / undefined reference.
NULL == "<null>"

VARIABLES
  \* McpService
  servers,        \* McpService.servers
  mcpCall,        \* the latest getActiveServers call on the loaded list:
                  \* its mentionedNames argument and the Record it returned
  \* isSessionExpiredError
  thrown,         \* the value handed to isSessionExpiredError
  classified,     \* whether isSessionExpiredError has been called on it
  expired,        \* what the call returned (FALSE before the call)
  \* path containment
  fsys,           \* the filesystem the calls run against
  pathArgs,       \* candidatePath, vaultPath, allowedExportPaths of the call
  pathCall,       \* whether the containment check was called, and its result
  rp,             \* resolveRealPath in progress: its locals and result
  \* SettingsStorage
  settingsFile,   \* the vault file .claude/settings.json behind the adapter
  settingsOp,     \* the latest load() or save(): its input, the adapter calls
                  \* it made and how its promise settled
  roundTrip,      \* how far a save(s), load(), save(load()) sequence has got:
                  \* s and the file as save(s) left it
  \* InlineEditService
  sessionId,          \* this.sessionId
  abortController,    \* this.abortController
  resolvedClaudePath, \* this.resolvedClaudePath
  runs,           \* the sendMessage runs whose SDK stream is open
  lastCall,       \* the latest editText / continueConversation call: what was
                  \* known when it was made and the query it issued
  lastReturn,     \* the InlineEditResult of the run that returned last
  initSeen,       \* session id of the latest init message since the last
                  \* editText, and since the last editText or reset
  \* inline-edit read-only hook
  queryOptions,   \* the tool options of the latest query() call of sendMessage:
                  \* allowedTools and whether a PreToolUse hook is installed
  hookCall,       \* the latest call of the PreToolUse hook: its tool_name and
                  \* the output it returned
  \* parseEnvironmentVariables
  envInput,       \* the text handed to parseEnvironmentVariables
  envCall,        \* whether it was called on the text, and the Record returned
  \* buildContextFromHistory
  history,        \* the messages handed to buildContextFromHistory
  historyCall     \* whether it was called on them, the blocks it built (parts)
                  \* and the text it returned

mcpVars == <<servers, mcpCall>>
errVars == <<thrown, classified, expired>>

pathVars == <<fsys, pathArgs, pathCall, rp>>

settingsVars == <<settingsFile, settingsOp, roundTrip>>

inlineVars ==
  <<sessionId, abortController, resolvedClaudePath, runs, lastCall, lastReturn,
    initSeen>>

hookVars == <<queryOptions, hookCall>>

envVars == <<envInput, envCall>>

historyVars == <<history, historyCall>>

vars == <<mcpVars, errVars, pathVars, settingsVars, inlineVars, hookVars, envVars, historyVars>>

(***************************************************************************)
(* Strings.  JavaScript strings are modelled by TLA+ strings; the          *)
(* operations below are the String.prototype methods the code calls.       *)
(***************************************************************************)

\* s.slice(from) with 1-based from: the characters of s from position from on.
StrFrom(s, from) == SubSeq(s, from, Len(s))

\* s.startsWith(p)
StartsWith(s, p) == Len(p) <= Len(s) /\ SubSeq(s, 1, Len(p)) = p

\* s.includes(p): p occurs in s as a contiguous substring.
Includes(s, p) ==
  \E i \in 1..(Len(s) - Len(p) + 1) : SubSeq(s, i, i + Len(p) - 1) = p

(***************************************************************************)
(* McpService (MCP server registry)                                        *)
(***************************************************************************)

\* The most servers a loaded list holds.
MaxServers == 2

ServerNames == {"alpha", "beta"}
ServerConfigs == {"cfg1"}

\* ClaudianMcpServer: name, config, enabled, contextSaving.
ServerRecords ==
  [name : ServerNames, config : ServerConfigs,
   enabled : BOOLEAN, contextSaving : BOOLEAN]

ServerLists == UNION {[1..n -> ServerRecords] : n \in 0..MaxServers}

\* An empty Record<string, McpServerConfig>.
EmptyRecord == [n \in {} |-> NULL]

\* result[key] = value on a Record.
RecordSet(rec, key, value) ==
  [k \in DOMAIN rec \cup {key} |-> IF k = key THEN value ELSE rec[k]]

\* A variant of the loop's test that forgets the enabled check.
ServerIsSkippedIgnoringEnabled(server, mentionedNames) ==
  server.contextSaving /\ server.name \notin mentionedNames

\* The two `continue` tests of the loop body: the server is left out.
ServerIsSkipped(server, mentionedNames) ==
  \/ ~server.enabled
  \/ (server.contextSaving /\ server.name \notin mentionedNames)

\* The for-of loop from index i on, with the result built so far.
RECURSIVE ActiveServersLoop(_, _, _, _)
ActiveServersLoop(list, mentionedNames, i, result) ==
  IF i > Len(list) THEN result
  ELSE ActiveServersLoop(list, mentionedNames, i + 1,
         IF ServerIsSkipped(list[i], mentionedNames) THEN result
         ELSE RecordSet(result, list[i].name, list[i].config))

\* McpService.getActiveServers(mentionedNames) on the loaded list.
GetActiveServersOf(list, mentionedNames) ==
  ActiveServersLoop(list, mentionedNames, 1, EmptyRecord)

\* No getActiveServers call has been made on the loaded list.
NoMcpCall == [called |-> FALSE, mentionedNames |-> {}, result |-> EmptyRecord]

McpIdle ==
  /\ servers = <<>>
  /\ mcpCall = NoMcpCall

\* The state after construction: no servers loaded.
McpInit == McpIdle

\* loadServers(): the list storage returns replaces the loaded one (results
\* returned for the previous list are no longer tracked).
LoadServers ==
  \E list \in ServerLists :
    /\ servers' = list
    /\ mcpCall' = NoMcpCall
    /\ UNCHANGED <<errVars, pathVars, settingsVars, inlineVars, hookVars, envVars, historyVars>>

\* getActiveServers(mentionedNames)
GetActiveServers ==
  \E m \in SUBSET ServerNames :
    /\ mcpCall' = [called |-> TRUE, mentionedNames |-> m,
                   result |-> GetActiveServersOf(servers, m)]
    /\ UNCHANGED <<servers, errVars, pathVars, settingsVars, inlineVars, hookVars, envVars, historyVars>>

McpNext == LoadServers \/ GetActiveServers

\* C1: after getActiveServers(mentionedNames), a name is a key of the result
\* if and only if some loaded server with that name is enabled and is either
\* not context-saving or mentioned.
C1_ActiveIffEnabledAndVisible ==
  mcpCall.called =>
    \A n \in ServerNames :
      (n \in DOMAIN mcpCall.result) <=>
        (\E i \in 1..Len(servers) :
           /\ servers[i].name = n
           /\ servers[i].enabled = TRUE
           /\ (servers[i].contextSaving = FALSE
               \/ n \in mcpCall.mentionedNames))

\* A call on a list holding a disabled server, an unmentioned context-saving
\* server and a mentioned one, with a non-empty result.
C1_Witness ==
  /\ mcpCall.called
  /\ \E i, j \in 1..Len(servers) :
       /\ ~servers[i].enabled
       /\ servers[i].name \notin DOMAIN mcpCall.result
       /\ servers[j].enabled /\ servers[j].contextSaving
       /\ servers[j].name \in mcpCall.mentionedNames
       /\ servers[j].name \in DOMAIN mcpCall.result

(***************************************************************************)
(* isSessionExpiredError (session recovery)                                *)
(***************************************************************************)

\* The most fragments an error message is built from.
MaxFragments == 3

\* The pieces error messages are built from: the words of the patterns, in
\* lower and upper case, and filler text.
MessageFragments ==
  {"session", "Session", " ", "expired", "EXPIRED", " not found", " invalid",
   "invalid ", "resume", "failed", "error", "process exited with code", "x"}

RECURSIVE Concat(_)
Concat(parts) ==
  IF parts = <<>> THEN "" ELSE Head(parts) \o Concat(Tail(parts))

ErrorMessages ==
  {Concat(parts) :
     parts \in UNION {[1..n -> MessageFragments] : n \in 0..MaxFragments}}

\* The thrown values: Error instances with a message, and other values
\* (strings, objects) that carry the same text but are no Error.
ThrownValues == [isError : BOOLEAN, text : ErrorMessages]

\* String.prototype.toLowerCase on one character.
LowerChar(c) ==
  CASE c = "A" -> "a" [] c = "B" -> "b" [] c = "C" -> "c" [] c = "D" -> "d"
    [] c = "E" -> "e" [] c = "F" -> "f" [] c = "G" -> "g" [] c = "H" -> "h"
    [] c = "I" -> "i" [] c = "J" -> "j" [] c = "K" -> "k" [] c = "L" -> "l"
    [] c = "M" -> "m" [] c = "N" -> "n" [] c = "O" -> "o" [] c = "P" -> "p"
    [] c = "Q" -> "q" [] c = "R" -> "r" [] c = "S" -> "s" [] c = "T" -> "t"
    [] c = "U" -> "u" [] c = "V" -> "v" [] c = "W" -> "w" [] c = "X" -> "x"
    [] c = "Y" -> "y" [] c = "Z" -> "z" [] OTHER -> c

RECURSIVE ToLowerCase(_)
ToLowerCase(s) ==
  IF s = "" THEN ""
  ELSE LowerChar(SubSeq(s, 1, 1)) \o ToLowerCase(StrFrom(s, 2))

SESSION_ERROR_PATTERNS ==
  <<"session expired", "session not found", "invalid session",
    "session invalid", "process exited with code">>

SESSION_ERROR_COMPOUND_PATTERNS ==
  <<<<"session", "expired">>, <<"resume", "failed">>, <<"resume", "error">>>>

\* A variant that compares the message as thrown, without lower-casing it.
ErrorMessageLowerOfAsThrown(error) ==
  IF error.isError THEN error.text ELSE ""

\* msg = error instanceof Error ? error.message.toLowerCase() : ''
ErrorMessageLowerOf(error) ==
  IF error.isError THEN ToLowerCase(error.text) ELSE ""

\* The first loop: for (pattern of SESSION_ERROR_PATTERNS), from index i on;
\* TRUE when some pattern returns true.
RECURSIVE SimplePatternLoop(_, _)
SimplePatternLoop(msg, i) ==
  IF i > Len(SESSION_ERROR_PATTERNS) THEN FALSE
  ELSE IF Includes(msg, SESSION_ERROR_PATTERNS[i]) THEN TRUE
  ELSE SimplePatternLoop(msg, i + 1)

\* includes.every(part => msg.includes(part))
EveryPartIncluded(msg, parts) ==
  \A k \in 1..Len(parts) : Includes(msg, parts[k])

\* The second loop, from index i on.
RECURSIVE CompoundPatternLoop(_, _)
CompoundPatternLoop(msg, i) ==
  IF i > Len(SESSION_ERROR_COMPOUND_PATTERNS) THEN FALSE
  ELSE IF EveryPartIncluded(msg, SESSION_ERROR_COMPOUND_PATTERNS[i]) THEN TRUE
  ELSE CompoundPatternLoop(msg, i + 1)

\* isSessionExpiredError(error)
IsSessionExpiredError(error) ==
  LET msg == ErrorMessageLowerOf(error)
  IN  IF SimplePatternLoop(msg, 1) THEN TRUE
      ELSE IF CompoundPatternLoop(msg, 1) THEN TRUE
      ELSE FALSE

NothingThrown == [isError |-> FALSE, text |-> ""]

ErrIdle ==
  /\ thrown = NothingThrown
  /\ classified = FALSE
  /\ expired = FALSE

\* Some value has been thrown and is about to be classified.
ErrInit ==
  /\ thrown \in ThrownValues
  /\ classified = FALSE
  /\ expired = FALSE

\* The call of isSessionExpiredError on the thrown value.
CheckSessionError ==
  /\ ~classified
  /\ classified' = TRUE
  /\ expired' = IsSessionExpiredError(thrown)
  /\ UNCHANGED <<thrown, mcpVars, pathVars, settingsVars, inlineVars, hookVars, envVars, historyVars>>

ErrNext == CheckSessionError

\* C2: isSessionExpiredError returns true if and only if the value is an Error
\* whose lower-cased message contains one of the five fixed substrings or
\* both words of one of the three fixed pairs; a non-Error value yields false.
C2_ExpiredIffPatternMatches ==
  classified =>
   (expired <=>
    /\ thrown.isError
    /\ LET lower == ToLowerCase(thrown.text)
       IN  \/ \E p \in {"session expired", "session not found",
                         "invalid session", "session invalid",
                         "process exited with code"} : Includes(lower, p)
           \/ \E pair \in {<<"session", "expired">>, <<"resume", "failed">>,
                            <<"resume", "error">>} :
                Includes(lower, pair[1]) /\ Includes(lower, pair[2]))

\* An Error whose message matches only after lower-casing and only through a
\* word pair whose words are not adjacent.
C2_Witness ==
  /\ classified /\ expired
  /\ thrown.isError
  /\ thrown.text = "EXPIREDxSession"

(***************************************************************************)
(* Paths (Node's posix `path` module) and the filesystem (`fs`)            *)
(***************************************************************************)

\* path.sep
Sep == "/"

\* The result of a call that throws (realpathSync on a missing path).
FAIL == "<throws>"

\* s.split('/') from the characters not yet read, cur being the segment
\* under construction.
RECURSIVE SplitLoop(_, _, _)
SplitLoop(s, cur, acc) ==
  IF s = "" THEN Append(acc, cur)
  ELSE IF SubSeq(s, 1, 1) = Sep THEN SplitLoop(StrFrom(s, 2), "", Append(acc, cur))
  ELSE SplitLoop(StrFrom(s, 2), cur \o SubSeq(s, 1, 1), acc)

\* The segments of a path, empty ones (doubled or trailing separators) kept.
Split(s) == SplitLoop(s, "", <<>>)

\* path.isAbsolute(p)
IsAbsolute(p) == StartsWith(p, Sep)

\* The normalisation of path.resolve / path.normalize on the segments of an
\* absolute path: empty and "." segments vanish, ".." removes the segment
\* before it and is dropped at the root.
RECURSIVE NormalizeSegments(_, _)
NormalizeSegments(segs, acc) ==
  IF segs = <<>> THEN acc
  ELSE LET s == Head(segs)
       IN  IF s = "" \/ s = "." THEN NormalizeSegments(Tail(segs), acc)
           ELSE IF s = ".."
             THEN NormalizeSegments(Tail(segs),
                    IF acc = <<>> THEN acc ELSE SubSeq(acc, 1, Len(acc) - 1))
           ELSE NormalizeSegments(Tail(segs), Append(acc, s))

\* The absolute path with the given normalised segments.
RECURSIVE FromSegments(_)
FromSegments(segs) ==
  IF segs = <<>> THEN Sep
  ELSE IF Len(segs) = 1 THEN Sep \o segs[1]
  ELSE FromSegments(SubSeq(segs, 1, Len(segs) - 1)) \o Sep \o segs[Len(segs)]

\* path.resolve(base, p) for an absolute base: p itself when absolute, else
\* p below base; normalised, without a trailing separator.
PathResolve(base, p) ==
  FromSegments(NormalizeSegments(
    IF IsAbsolute(p) THEN Split(p) ELSE Split(base) \o Split(p), <<>>))

\* path.join(base, rest) for an absolute base: the two joined by a separator
\* and normalised; a trailing separator is kept.
PathJoin(base, rest) ==
  LET joined == IF rest = "" THEN base ELSE base \o Sep \o rest
      norm   == FromSegments(NormalizeSegments(Split(joined), <<>>))
      segs   == Split(joined)
  IN  IF segs[Len(segs)] = "" /\ norm # Sep THEN norm \o Sep ELSE norm

\* path.dirname(p) of a normalised absolute path.
Dirname(p) ==
  LET segs == NormalizeSegments(Split(p), <<>>)
  IN  IF segs = <<>> THEN Sep ELSE FromSegments(SubSeq(segs, 1, Len(segs) - 1))

\* path.basename(p) of a normalised absolute path.
Basename(p) ==
  LET segs == NormalizeSegments(Split(p), <<>>)
  IN  IF segs = <<>> THEN "" ELSE segs[Len(segs)]

\* os.homedir() and process.cwd()
HomeDir == "/h"
Cwd == "/o"

\* The longest chain of symbolic links the system follows in one lookup
\* (ELOOP beyond it).
SymlinkHopLimit == 3

\* The child of directory dir named name.
Child(dir, name) == IF dir = Sep THEN Sep \o name ELSE dir \o Sep \o name

\* A filesystem: whether the root (drive) is there at all, the real
\* directories and files, and the symbolic links with their targets.
\* fs.realpathSync on filesystem f, walking the segments in rest from the
\* real directory cur; FAIL when a segment is missing (ENOENT), lies below a
\* file (ENOTDIR), or the links do not end (ELOOP).
RECURSIVE RealpathWalk(_, _, _, _)
RealpathWalk(f, cur, rest, hops) ==
  IF ~f.root THEN FAIL
  ELSE IF rest = <<>> THEN cur
  ELSE LET s    == Head(rest)
           next == Child(cur, s)
       IN  IF s = "" \/ s = "." THEN RealpathWalk(f, cur, Tail(rest), hops)
           ELSE IF s = ".." THEN RealpathWalk(f, Dirname(cur), Tail(rest), hops)
           ELSE IF next \in DOMAIN f.links
             THEN IF hops = 0 THEN FAIL
                  ELSE IF IsAbsolute(f.links[next])
                    THEN RealpathWalk(f, Sep, Split(f.links[next]) \o Tail(rest),
                                      hops - 1)
                    ELSE RealpathWalk(f, cur, Split(f.links[next]) \o Tail(rest),
                                      hops - 1)
           ELSE IF next \in f.dirs THEN RealpathWalk(f, next, Tail(rest), hops)
           ELSE IF next \in f.files /\ Tail(rest) = <<>> THEN next
           ELSE FAIL

\* realpathFn(p): relative paths start at the working directory.
RealpathFn(f, p) ==
  RealpathWalk(f, Sep,
               IF IsAbsolute(p) THEN Split(p) ELSE Split(Cwd) \o Split(p),
               SymlinkHopLimit)

\* fs.existsSync(p): follows links, false on any error.
ExistsSync(f, p) == RealpathFn(f, p) # FAIL

(***************************************************************************)
(* resolveRealPath, isPathWithinVault, isPathInAllowedExportPaths          *)
(***************************************************************************)

\* suffix.reverse()
RECURSIVE Reverse(_)
Reverse(seq) ==
  IF seq = <<>> THEN <<>> ELSE Append(Reverse(Tail(seq)), Head(seq))

\* path.join(base, ...segments)
RECURSIVE PathJoinAll(_, _)
PathJoinAll(base, segments) ==
  IF segments = <<>> THEN base
  ELSE PathJoinAll(PathJoin(base, Head(segments)), Tail(segments))

\* A variant of the return inside the loop that re-appends the skipped
\* segments in the order they were pushed (nearest the leaf first).
WalkUpReturnUnreversed(resolvedExisting, suffix) ==
  IF Len(suffix) > 0
    THEN PathJoinAll(resolvedExisting, suffix)
    ELSE resolvedExisting

\* The return inside the loop: the existing ancestor's real path with the
\* skipped segments re-appended.
WalkUpReturn(resolvedExisting, suffix) ==
  IF Len(suffix) > 0
    THEN PathJoinAll(resolvedExisting, Reverse(suffix))
    ELSE resolvedExisting

\* The state of the catch branch on entering the loop.
WalkUpStart(p) ==
  LET absolute == PathResolve(Cwd, p)
  IN  [pc |-> "loop", input |-> p, absolute |-> absolute,
       current |-> absolute, suffix |-> <<>>, result |-> "", steps |-> 0]

\* One iteration of the while (true) loop.
WalkUpStep(f, st) ==
  IF ExistsSync(f, st.current) /\ RealpathFn(f, st.current) # FAIL
    THEN [st EXCEPT !.pc = "done",
                    !.result = WalkUpReturn(RealpathFn(f, st.current), st.suffix),
                    !.steps = st.steps + 1]
  ELSE IF Dirname(st.current) = st.current
    THEN [st EXCEPT !.pc = "done", !.result = st.absolute,
                    !.steps = st.steps + 1]
  ELSE [st EXCEPT !.suffix = Append(st.suffix, Basename(st.current)),
                  !.current = Dirname(st.current),
                  !.steps = st.steps + 1]

\* The loop run to its return.
RECURSIVE WalkUp(_, _)
WalkUp(f, st) ==
  IF st.pc = "done" THEN st.result ELSE WalkUp(f, WalkUpStep(f, st))

\* resolveRealPath(p) on filesystem f.
ResolveRealPath(f, p) ==
  IF RealpathFn(f, p) # FAIL THEN RealpathFn(f, p)
  ELSE WalkUp(f, WalkUpStart(p))

\* candidatePath.startsWith('~/') ? path.join(os.homedir(), slice(2)) : itself
ExpandHome(p) ==
  IF StartsWith(p, "~/") THEN PathJoin(HomeDir, StrFrom(p, 3)) ELSE p

\* expanded, made absolute against the vault path
AbsoluteCandidate(candidatePath, vaultPath) ==
  IF IsAbsolute(ExpandHome(candidatePath))
    THEN ExpandHome(candidatePath)
    ELSE PathResolve(vaultPath, ExpandHome(candidatePath))

\* resolvedCandidate === base || resolvedCandidate.startsWith(base + path.sep)
IsAtOrBelow(resolvedCandidate, resolvedBase) ==
  \/ resolvedCandidate = resolvedBase
  \/ StartsWith(resolvedCandidate, resolvedBase \o Sep)

\* isPathWithinVault(candidatePath, vaultPath)
IsPathWithinVault(f, candidatePath, vaultPath) ==
  LET vaultReal == ResolveRealPath(f, vaultPath)
      resolvedCandidate ==
        ResolveRealPath(f, AbsoluteCandidate(candidatePath, vaultPath))
  IN  IsAtOrBelow(resolvedCandidate, vaultReal)

\* The for loop over allowedExportPaths from index i on.
RECURSIVE ExportPathLoop(_, _, _, _)
ExportPathLoop(f, resolvedCandidate, allowedExportPaths, i) ==
  IF i > Len(allowedExportPaths) THEN FALSE
  ELSE IF IsAtOrBelow(resolvedCandidate,
                      ResolveRealPath(f, ExpandHome(allowedExportPaths[i])))
    THEN TRUE
  ELSE ExportPathLoop(f, resolvedCandidate, allowedExportPaths, i + 1)

\* isPathInAllowedExportPaths(candidatePath, allowedExportPaths, vaultPath);
\* a missing list is the empty one.
IsPathInAllowedExportPaths(f, candidatePath, allowedExportPaths, vaultPath) ==
  IF Len(allowedExportPaths) = 0 THEN FALSE
  ELSE ExportPathLoop(
         f, ResolveRealPath(f, AbsoluteCandidate(candidatePath, vaultPath)),
         allowedExportPaths, 1)

\* The deepest candidate, export-check candidate and resolveRealPath input.
MaxCandidateDepth == 3
MaxExportDepth == 2
MaxResolveDepth == 3
\* The most allowed export paths of a call.
MaxExportPaths == 2

NoLinks == [n \in {} |-> ""]

\* A filesystem with the vault /v, its sibling /vx, an outside directory /o
\* holding a file, the home directory /h; optionally /v/a, a link /v/l with
\* the given target, and a link /w to the vault.
MakeFilesystem(hasA, linkTarget, hasW) ==
  [root  |-> TRUE,
   dirs  |-> {"/v", "/vx", "/o", "/h"} \cup (IF hasA THEN {"/v/a"} ELSE {}),
   files |-> {"/o/f"},
   links |-> (IF linkTarget = "" THEN NoLinks ELSE ("/v/l" :> linkTarget))
             @@ (IF hasW THEN ("/w" :> "/v") ELSE NoLinks)]

\* Nothing can be resolved, the root included (an unmounted drive).
NoRootFilesystem ==
  [root |-> FALSE, dirs |-> {}, files |-> {}, links |-> NoLinks]

\* Targets of /v/l: none, an outside directory, a missing outside path (a
\* dangling link), /v/a (dangling when /v/a is missing), itself, its parent.
LinkTargets == {"", "/o", "/o/n", "a", "l", ".."}

Filesystems ==
  {MakeFilesystem(hasA, t, hasW) :
     hasA \in BOOLEAN, t \in LinkTargets, hasW \in BOOLEAN}
  \cup {NoRootFilesystem}

\* Relative paths of 1..depth segments.
RECURSIVE RelativePaths(_, _)
RelativePaths(segments, depth) ==
  IF depth = 0 THEN {}
  ELSE segments \cup RelativePaths(segments, depth - 1)
       \cup {q \o Sep \o x : q \in RelativePaths(segments, depth - 1),
                            x \in segments}

\* Candidate paths: relative, absolute and home-relative.
PathsOver(segments, depth, prefixes) ==
  prefixes \cup {pre \o q : pre \in prefixes, q \in RelativePaths(segments, depth)}

CandidatePaths ==
  PathsOver({"v", "vx", "o", "l", "a", "n", ".."}, MaxCandidateDepth,
            {"", "/", "~/"})

\* The vault directory, by its name and through the link /w.
VaultPaths == {"/v", "/w"}

ExportCandidatePaths ==
  PathsOver({"v", "o", "l", "n", ".."}, MaxExportDepth, {"", "/", "~/"})

ExportPaths == {"/", "/o", "/v/l", "~/n"}

ExportPathLists == UNION {[1..n -> ExportPaths] : n \in 0..MaxExportPaths}

ResolveSegments == {"v", "w", "l", "n", "m", ".."}

ResolveInputs ==
  PathsOver(ResolveSegments, MaxResolveDepth, {"/"})
  \cup RelativePaths(ResolveSegments, MaxResolveDepth)

NoPathArgs == [candidatePath |-> "", vaultPath |-> "/", allowedExportPaths |-> <<>>]
NoPathCall == [done |-> FALSE, result |-> FALSE]
IdleResolve ==
  [pc |-> "idle", input |-> "", absolute |-> "", current |-> "",
   suffix |-> <<>>, result |-> "", steps |-> 0]

PathIdle ==
  /\ fsys = NoRootFilesystem
  /\ pathArgs = NoPathArgs
  /\ pathCall = NoPathCall
  /\ rp = IdleResolve

\* isPathWithinVault is about to be called.
VaultInit ==
  /\ fsys \in Filesystems
  /\ pathArgs \in [candidatePath : CandidatePaths, vaultPath : VaultPaths,
                   allowedExportPaths : {<<>>}]
  /\ pathCall = NoPathCall
  /\ rp = IdleResolve

\* isPathInAllowedExportPaths is about to be called.
ExportInit ==
  /\ fsys \in Filesystems
  /\ pathArgs \in [candidatePath : ExportCandidatePaths, vaultPath : {"/v"},
                   allowedExportPaths : ExportPathLists]
  /\ pathCall = NoPathCall
  /\ rp = IdleResolve

\* resolveRealPath is about to be called.
ResolveInit ==
  /\ fsys \in Filesystems
  /\ pathArgs = NoPathArgs
  /\ pathCall = NoPathCall
  /\ rp \in {[IdleResolve EXCEPT !.pc = "start", !.input = p] : p \in ResolveInputs}

\* The call isPathWithinVault(candidatePath, vaultPath).
CallIsPathWithinVault ==
  /\ ~pathCall.done
  /\ pathCall' = [done |-> TRUE,
                  result |-> IsPathWithinVault(fsys, pathArgs.candidatePath,
                                               pathArgs.vaultPath)]
  /\ UNCHANGED <<fsys, pathArgs, rp, mcpVars, errVars, settingsVars, inlineVars, hookVars, envVars, historyVars>>

\* The call isPathInAllowedExportPaths(candidatePath, allowed, vaultPath).
CallIsPathInAllowedExportPaths ==
  /\ ~pathCall.done
  /\ pathCall' = [done |-> TRUE,
                  result |-> IsPathInAllowedExportPaths(
                               fsys, pathArgs.candidatePath,
                               pathArgs.allowedExportPaths, pathArgs.vaultPath)]
  /\ UNCHANGED <<fsys, pathArgs, rp, mcpVars, errVars, settingsVars, inlineVars, hookVars, envVars, historyVars>>

\* resolveRealPath: the try block; on a throw, the catch block up to the loop.
ResolveTry ==
  /\ rp.pc = "start"
  /\ rp' = IF RealpathFn(fsys, rp.input) # FAIL
             THEN [rp EXCEPT !.pc = "done", !.result = RealpathFn(fsys, rp.input)]
             ELSE WalkUpStart(rp.input)
  /\ UNCHANGED <<fsys, pathArgs, pathCall, mcpVars, errVars, settingsVars, inlineVars, hookVars, envVars, historyVars>>

\* resolveRealPath: one iteration of the loop.
ResolveLoop ==
  /\ rp.pc = "loop"
  /\ rp' = WalkUpStep(fsys, rp)
  /\ UNCHANGED <<fsys, pathArgs, pathCall, mcpVars, errVars, settingsVars, inlineVars, hookVars, envVars, historyVars>>

VaultNext == CallIsPathWithinVault
ExportNext == CallIsPathInAllowedExportPaths
ResolveNext == ResolveTry \/ ResolveLoop

\* Whether the segments pre are a proper prefix of the segments all.
IsProperPrefix(pre, all) ==
  Len(pre) < Len(all) /\ SubSeq(all, 1, Len(pre)) = pre

\* The normalised segments of an absolute path.
SegmentsOf(p) == NormalizeSegments(Split(p), <<>>)

\* The location an absolute path names to the operating system: the segments
\* are walked from the root, every symbolic link on the way is followed,
\* whether or not its target exists; segments that do not exist yet are kept
\* as they are, and so is a link whose chain does not end.
RECURSIVE LocationWalk(_, _, _, _)
LocationWalk(f, cur, rest, hops) ==
  IF rest = <<>> THEN cur
  ELSE LET s    == Head(rest)
           next == Child(cur, s)
       IN  IF s = "" \/ s = "." THEN LocationWalk(f, cur, Tail(rest), hops)
           ELSE IF s = ".." THEN LocationWalk(f, Dirname(cur), Tail(rest), hops)
           ELSE IF next \in DOMAIN f.links /\ hops > 0
             THEN LocationWalk(f, IF IsAbsolute(f.links[next]) THEN Sep ELSE cur,
                               Split(f.links[next]) \o Tail(rest), hops - 1)
           ELSE LocationWalk(f, next, Tail(rest), hops)

LocationOf(f, p) == LocationWalk(f, Sep, Split(p), SymlinkHopLimit)

\* The candidate as the claim reads it: '~/' expanded to the home directory,
\* a relative candidate taken below the vault path.
C3_Candidate ==
  LET c == pathArgs.candidatePath
  IN  IF StartsWith(c, "~/") THEN HomeDir \o Sep \o StrFrom(c, 3)
      ELSE IF IsAbsolute(c) THEN c
      ELSE pathArgs.vaultPath \o Sep \o c

\* C3: isPathWithinVault returns true exactly when the symlink-resolved
\* candidate equals the symlink-resolved vault path or lies strictly below it
\* at a path-separator boundary (so a sibling sharing the vault's name as a
\* prefix, and a path that leaves the vault through a symbolic link, yield
\* false).
C3_WithinVaultIffResolvedBelow ==
  pathCall.done =>
    LET c == LocationOf(fsys, C3_Candidate)
        v == LocationOf(fsys, pathArgs.vaultPath)
    IN  pathCall.result <=>
          (c = v \/ IsProperPrefix(SegmentsOf(v), SegmentsOf(c)))

\* C4: isPathInAllowedExportPaths returns false for an empty list and
\* otherwise true if and only if some allowed export path's resolved form
\* equals the resolved candidate or is an ancestor of it at a path-separator
\* boundary, whatever the order of the list.
C4_ExportIffSomeAllowedAncestor ==
  pathCall.done =>
    LET rc == ResolveRealPath(
                fsys, AbsoluteCandidate(pathArgs.candidatePath, pathArgs.vaultPath))
        allowed == pathArgs.allowedExportPaths
    IN  pathCall.result <=>
          /\ Len(allowed) > 0
          /\ \E i \in 1..Len(allowed) :
               LET re == ResolveRealPath(fsys, ExpandHome(allowed[i]))
               IN  rc = re \/ IsProperPrefix(SegmentsOf(re), SegmentsOf(rc))

\* What the claim says resolveRealPath returns for the input of the call in
\* progress: the real path when the full path resolves; else the real path of
\* the nearest ancestor of the absolute form that exists, followed by the
\* skipped segments in their original order; else the absolute form.
C5_Expected ==
  LET f        == fsys
      absolute == PathResolve(Cwd, rp.input)
      segs     == SegmentsOf(absolute)
      existing == {k \in 0..Len(segs) :
                     ExistsSync(f, FromSegments(SubSeq(segs, 1, k)))}
  IN  IF RealpathFn(f, rp.input) # FAIL THEN RealpathFn(f, rp.input)
      ELSE IF existing = {} THEN absolute
      ELSE LET k == CHOOSE k \in existing : \A j \in existing : j <= k
           IN  FromSegments(
                 SegmentsOf(RealpathFn(f, FromSegments(SubSeq(segs, 1, k))))
                 \o SubSeq(segs, k + 1, Len(segs)))

\* C5: resolveRealPath terminates for every path and filesystem: the loop
\* runs at most once per segment of the absolute path and once for the root
\* (every step of a call in progress counts), and the call ends with the
\* result the claim describes.
C5_ResolveTerminatesWithNearestAncestor ==
  /\ rp.pc \in {"loop", "done"} =>
       rp.steps <= Len(SegmentsOf(PathResolve(Cwd, rp.input))) + 1
  /\ rp.pc = "done" => rp.result = C5_Expected

\* A finished call that skipped two different segments and found an ancestor whose real
\* path differs from its name.
C5_Witness ==
  /\ rp.pc = "done"
  /\ Len(rp.suffix) >= 2
  /\ rp.suffix[1] # rp.suffix[2]
  /\ rp.result # rp.absolute

(***************************************************************************)
(* SettingsStorage (settings persistence)                                  *)
(***************************************************************************)

SETTINGS_PATH == ".claude/settings.json"

\* type StateFields
StateFields == {"slashCommands", "lastEnvHash", "lastClaudeModel", "lastCustomModel"}

\* Keys of StoredSettings (two of the user-facing settings).
StoredKeys == {"model", "thinkingBudget"}

\* DEFAULT_SETTINGS: a value for every key of ClaudianSettings.
DEFAULT_SETTINGS == [k \in StoredKeys \cup StateFields |-> "default " \o k]

\* A JavaScript undefined property value, and a value JSON.stringify throws
\* on (a circular structure, a BigInt).
UNDEFINED == "<undefined>"
UNSERIALIZABLE == "<circular>"

\* The keys seen in objects and files: stored keys and one state field.
ObjectKeys == StoredKeys \cup {"lastEnvHash"}

\* Objects: a value for each of some keys.
ObjectsOver(keys, values) == UNION {[ks -> values] : ks \in SUBSET keys}

\* The objects handed to save().
SettingsObjects == ObjectsOver(ObjectKeys, {"opus", UNDEFINED, UNSERIALIZABLE})

\* File contents: the JSON text of an object, the JSON text "null", or text
\* that is no JSON.
NoFields == [k \in {} |-> ""]
GarbageText == [kind |-> "garbage", fields |-> NoFields]
NullText == [kind |-> "null", fields |-> NoFields]
ObjectText(fields) == [kind |-> "object", fields |-> fields]

FileTexts ==
  {ObjectText(o) : o \in ObjectsOver(ObjectKeys, {"opus", "haiku"})}
  \cup {NullText, GarbageText}

MissingFile == [exists |-> FALSE, text |-> GarbageText]
FileWith(text) == [exists |-> TRUE, text |-> text]

SettingsFiles == {MissingFile} \cup {FileWith(t) : t \in FileTexts}

\* How the adapter behaves during one operation: it works, or one of its
\* methods rejects.
AdapterFaults == {"none", "exists", "read", "write"}

\* The outcome of a block of code: a returned value or a thrown error.
Returned(v) == [threw |-> FALSE, value |-> v, error |-> ""]
Threw(e) == [threw |-> TRUE, value |-> NoFields, error |-> e]

\* A settled promise.
Resolved(v) == [status |-> "resolved", value |-> v, error |-> ""]
Rejected(e) == [status |-> "rejected", value |-> NoFields, error |-> e]

\* getDefaults(): DEFAULT_SETTINGS without the four state fields.
GetDefaults ==
  [k \in DOMAIN DEFAULT_SETTINGS \ StateFields |-> DEFAULT_SETTINGS[k]]

\* A merge in which the first operand's properties win.
SpreadFirstWins(a, b) ==
  [k \in DOMAIN a \cup DOMAIN b |-> IF k \in DOMAIN a THEN a[k] ELSE b[k]]

\* { ...a, ...b }
Spread(a, b) ==
  [k \in DOMAIN a \cup DOMAIN b |-> IF k \in DOMAIN b THEN b[k] ELSE a[k]]

\* JSON.parse(content): the parsed value, or a SyntaxError.
JsonParse(text) ==
  IF text.kind = "garbage" THEN Threw("SyntaxError") ELSE Returned(text.fields)

\* JSON.stringify(settings, null, 2): properties whose value is undefined are
\* left out; a TypeError on a value that cannot be serialised.
JsonStringify(obj) ==
  IF \E k \in DOMAIN obj : obj[k] = UNSERIALIZABLE THEN Threw("TypeError")
  ELSE Returned(ObjectText(
         [k \in {j \in DOMAIN obj : obj[j] # UNDEFINED} |-> obj[k]]))

\* The try block of load().
LoadTry(file, fault) ==
  IF fault = "exists" THEN Threw("exists failed")
  ELSE IF ~file.exists THEN Returned(GetDefaults)
  ELSE IF fault = "read" THEN Threw("read failed")
  ELSE IF JsonParse(file.text).threw THEN Threw(JsonParse(file.text).error)
  ELSE Returned(Spread(GetDefaults, JsonParse(file.text).value))

\* A variant of load()'s catch block that rethrows, as save()'s does.
LoadSettleRethrowing(tried) ==
  IF tried.threw THEN Rejected(tried.error) ELSE Resolved(tried.value)

\* load(): the try block's value, or the defaults from the catch block.
LoadSettle(tried) ==
  IF tried.threw THEN Resolved(GetDefaults) ELSE Resolved(tried.value)

\* The try block of save(): the adapter.write calls it makes and its outcome.
SaveTry(settings, fault) ==
  IF JsonStringify(settings).threw
    THEN [writes |-> <<>>, tried |-> Threw(JsonStringify(settings).error)]
  ELSE [writes |-> <<[path |-> SETTINGS_PATH,
                      text |-> JsonStringify(settings).value]>>,
        tried  |-> IF fault = "write" THEN Threw("write failed")
                   ELSE Returned(NoFields)]

\* A variant of save()'s catch block that logs and does not rethrow.
SaveSettleSwallowing(tried) == Resolved(NoFields)

\* save(): resolved, or rejected with the error caught.
SaveSettle(tried) ==
  IF tried.threw THEN Rejected(tried.error) ELSE Resolved(NoFields)

NoSettingsOp ==
  [kind |-> "none", fault |-> "none", input |-> NoFields, before |-> MissingFile,
   writes |-> <<>>, outcome |-> Resolved(NoFields)]

\* No save(s) to follow up on.
NoRoundTrip == [stage |-> "none", s |-> NoFields, fileSaved |-> MissingFile]

SettingsIdle ==
  /\ settingsFile = MissingFile
  /\ settingsOp = NoSettingsOp
  /\ roundTrip = NoRoundTrip

\* The storage is constructed over a vault whose settings file is missing or
\* holds any text.
SettingsInit ==
  /\ settingsFile \in SettingsFiles
  /\ settingsOp = NoSettingsOp
  /\ roundTrip = NoRoundTrip

\* load()
Load ==
  \E fault \in AdapterFaults \ {"write"} :
    /\ settingsOp' = [kind |-> "load", fault |-> fault, input |-> NoFields,
                      before |-> settingsFile, writes |-> <<>>,
                      outcome |-> LoadSettle(LoadTry(settingsFile, fault))]
    /\ roundTrip' =
         IF roundTrip.stage \in {"saved", "loaded"}
           THEN [roundTrip EXCEPT
                   !.stage = IF fault = "none" THEN "loaded" ELSE "saved"]
           ELSE roundTrip
    /\ UNCHANGED <<settingsFile, mcpVars, errVars, pathVars, inlineVars, hookVars, envVars, historyVars>>

\* save(settings) as it changes the file and the record of the call; a write
\* that rejects leaves the file as it was or broken.
SaveOf(settings, fault) ==
  LET try == SaveTry(settings, fault)
  IN  /\ settingsOp' = [kind |-> "save", fault |-> fault, input |-> settings,
                        before |-> settingsFile, writes |-> try.writes,
                        outcome |-> SaveSettle(try.tried)]
      /\ IF try.writes = <<>> THEN settingsFile' = settingsFile
         ELSE IF try.tried.threw
           THEN settingsFile' \in {settingsFile, FileWith(GarbageText)}
         ELSE settingsFile' = FileWith(try.writes[1].text)

\* save(settings) with settings of the caller's making.
Save ==
  \E settings \in SettingsObjects, fault \in {"none", "write"} :
    /\ SaveOf(settings, fault)
    /\ roundTrip' =
         IF SaveTry(settings, fault).tried.threw THEN NoRoundTrip
         ELSE [stage |-> "saved", s |-> settings, fileSaved |-> settingsFile']
    /\ UNCHANGED <<mcpVars, errVars, pathVars, inlineVars, hookVars, envVars, historyVars>>

\* save(await load()): the caller saves the object the latest load() gave.
SaveLoaded ==
  \E fault \in {"none", "write"} :
    /\ settingsOp.kind = "load"
    /\ settingsOp.outcome.status = "resolved"
    /\ SaveOf(settingsOp.outcome.value, fault)
    /\ roundTrip' =
         IF roundTrip.stage = "loaded" /\ fault = "none"
           THEN [roundTrip EXCEPT !.stage = "resaved"]
           ELSE NoRoundTrip
    /\ UNCHANGED <<mcpVars, errVars, pathVars, inlineVars, hookVars, envVars, historyVars>>

SettingsNext == Load \/ Save \/ SaveLoaded

\* The default settings as the claims name them: DEFAULT_SETTINGS without
\* slashCommands, lastEnvHash, lastClaudeModel, lastCustomModel.
DefaultsWithoutState ==
  [k \in DOMAIN DEFAULT_SETTINGS \
         {"slashCommands", "lastEnvHash", "lastClaudeModel", "lastCustomModel"}
     |-> DEFAULT_SETTINGS[k]]

\* C6: load() never rejects and never writes; when the file is missing, or
\* adapter.exists, adapter.read or JSON parsing fails, it resolves to the
\* default settings without the state fields.
C6_LoadNeverRejects ==
  settingsOp.kind = "load" =>
    /\ settingsOp.outcome.status = "resolved"
    /\ settingsOp.writes = <<>>
    /\ settingsFile = settingsOp.before
    /\ (\/ ~settingsOp.before.exists
        \/ settingsOp.fault \in {"exists", "read"}
        \/ settingsOp.before.text.kind = "garbage")
       => settingsOp.outcome.value = DefaultsWithoutState

\* A load of an existing file whose text is no JSON, settled with the defaults.
C6_Witness ==
  /\ settingsOp.kind = "load"
  /\ settingsOp.fault = "none"
  /\ settingsOp.before.exists
  /\ settingsOp.before.text.kind = "garbage"
  /\ settingsOp.outcome = Resolved(DefaultsWithoutState)

\* C7: load() of an existing, parseable file returns the stored object merged
\* over the defaults: every key of the file has the file's value, every other
\* key has the default value, and no state field is in the result.
C7_LoadMergesOverDefaults ==
  (/\ settingsOp.kind = "load"
   /\ settingsOp.fault = "none"
   /\ settingsOp.before.exists
   /\ settingsOp.before.text.kind # "garbage") =>
    LET stored == settingsOp.before.text.fields
        result == settingsOp.outcome.value
    IN  /\ settingsOp.outcome.status = "resolved"
        /\ \A k \in DOMAIN stored : k \in DOMAIN result /\ result[k] = stored[k]
        /\ \A k \in DOMAIN DefaultsWithoutState \ DOMAIN stored :
             k \in DOMAIN result /\ result[k] = DEFAULT_SETTINGS[k]
        /\ DOMAIN result \subseteq DOMAIN stored \cup DOMAIN DefaultsWithoutState
        /\ DOMAIN result \cap StateFields = {}

\* C8: save(settings) writes the JSON serialisation of settings to
\* .claude/settings.json and to no other path; when serialisation or
\* adapter.write fails it rejects with that same error.
C8_SaveWritesOrRejects ==
  settingsOp.kind = "save" =>
    LET unserializable ==
          \E k \in DOMAIN settingsOp.input : settingsOp.input[k] = UNSERIALIZABLE
        json ==
          ObjectText([k \in {j \in DOMAIN settingsOp.input :
                               settingsOp.input[j] # UNDEFINED}
                        |-> settingsOp.input[k]])
    IN  /\ \A i \in 1..Len(settingsOp.writes) :
             settingsOp.writes[i] = [path |-> ".claude/settings.json", text |-> json]
        /\ unserializable =>
             /\ settingsOp.writes = <<>>
             /\ settingsOp.outcome = Rejected("TypeError")
             /\ settingsFile = settingsOp.before
        /\ (~unserializable /\ settingsOp.fault = "write") =>
             /\ Len(settingsOp.writes) = 1
             /\ settingsOp.outcome = Rejected("write failed")
        /\ (~unserializable /\ settingsOp.fault = "none") =>
             /\ Len(settingsOp.writes) = 1
             /\ settingsOp.outcome.status = "resolved"
             /\ settingsFile = FileWith(json)

\* A save whose adapter.write rejected.
C8_Witness ==
  /\ settingsOp.kind = "save"
  /\ settingsOp.fault = "write"
  /\ Len(settingsOp.writes) = 1
  /\ settingsOp.outcome = Rejected("write failed")

\* The properties of an object that have a value.
C14_Defined(obj) == [k \in {j \in DOMAIN obj : obj[j] # UNDEFINED} |-> obj[k]]

\* s merged over the defaults: the value s defines for a key, else the default.
C14_MergedOverDefaults(obj) ==
  [k \in DOMAIN C14_Defined(obj) \cup DOMAIN DefaultsWithoutState |->
     IF k \in DOMAIN C14_Defined(obj) THEN obj[k] ELSE DEFAULT_SETTINGS[k]]

\* Whether load() just ran on the file that a resolved save(s) left.
C14_LoadedAfterSave ==
  /\ roundTrip.stage = "loaded"
  /\ settingsOp.kind = "load"
  /\ settingsOp.fault = "none"

\* load() after save(s) returns s merged over the defaults, which is s itself
\* when s defines every stored-settings key.
C14_LoadReturnsSaved ==
  C14_LoadedAfterSave =>
    /\ settingsOp.outcome = Resolved(C14_MergedOverDefaults(roundTrip.s))
    /\ DOMAIN DefaultsWithoutState \subseteq DOMAIN C14_Defined(roundTrip.s)
         => settingsOp.outcome.value = C14_Defined(roundTrip.s)

MaxInFlight == 1

\* The most text-carrying messages one run's stream delivers.
MaxChunks == 1

\* session_id values of system/init messages.
SessionIds == {"s1", "s2"}

\* The text that extractTextFromMessage finds in a message.
TextChunks == {" ask ", "<replacement>new</replacement>"}

\* What findClaudeCLI returns when one of the common paths exists.
ClaudePath == "/usr/local/bin/claude"

\* The open streams are kept in slots; a run's AbortController is named by the
\* run's slot, and 0 stands for this.abortController = null.
Slots == 1..MaxInFlight
NoController == 0

\* InlineEditResult
Failure(error) ==
  [success |-> FALSE, error |-> error, editedText |-> NULL, clarification |-> NULL]
Edited(text) ==
  [success |-> TRUE, error |-> NULL, editedText |-> text, clarification |-> NULL]
Clarification(text) ==
  [success |-> TRUE, error |-> NULL, editedText |-> NULL, clarification |-> text]

\* SDK messages, by what sendMessage reads of them: type, subtype, session_id
\* and the text extractTextFromMessage returns (NULL when it finds none).
InitMessage(id) ==
  [type |-> "system", subtype |-> "init", session_id |-> id, text |-> NULL]
TextMessage(chunk) ==
  [type |-> "assistant", subtype |-> NULL, session_id |-> NULL, text |-> chunk]
ResultMessage ==
  [type |-> "result", subtype |-> "success", session_id |-> "s1", text |-> NULL]
SdkMessages ==
  {InitMessage(id) : id \in SessionIds \cup {""}}
    \cup {TextMessage(c) : c \in TextChunks} \cup {ResultMessage}

\* s.indexOf(p, from), 1-based; 0 when p does not occur at or after from.
RECURSIVE IndexOf(_, _, _)
IndexOf(s, p, from) ==
  IF from + Len(p) - 1 > Len(s) THEN 0
  ELSE IF SubSeq(s, from, from + Len(p) - 1) = p THEN from
  ELSE IndexOf(s, p, from + 1)

IsWhitespace(c) == c \in {" ", "\n", "\t"}

\* s.trim()
RECURSIVE Trim(_)
Trim(s) ==
  IF s = "" THEN s
  ELSE IF IsWhitespace(SubSeq(s, 1, 1)) THEN Trim(StrFrom(s, 2))
  ELSE IF IsWhitespace(SubSeq(s, Len(s), Len(s))) THEN Trim(SubSeq(s, 1, Len(s) - 1))
  ELSE s

\* parseResponse(responseText): the text between the first <replacement> and
\* the first </replacement> after it, else the trimmed text, else a failure.
ParseResponse(responseText) ==
  LET open == "<replacement>"
      close == "</replacement>"
      start == IndexOf(responseText, open, 1)
      end == IF start = 0 THEN 0
             ELSE IndexOf(responseText, close, start + Len(open))
      trimmed == Trim(responseText)
  IN  IF end # 0 THEN Edited(SubSeq(responseText, start + Len(open), end - 1))
      ELSE IF trimmed # "" THEN Clarification(trimmed)
      ELSE Failure("Empty response")

\* A slot without a run, and a run whose stream was just opened.
IdleRun == [pc |-> "idle", aborted |-> FALSE, chunks |-> <<>>]
OpenedRun == [pc |-> "streaming", aborted |-> FALSE, chunks |-> <<>>]

\* No editText or continueConversation call yet.
NoCall ==
  [method |-> "none", held |-> NULL, queried |-> FALSE, resume |-> NULL,
   expected |-> NULL, returned |-> FALSE, result |-> Failure(NULL)]

NoInitSeen == [sinceEdit |-> NULL, sinceClear |-> NULL]

\* this.sessionId after editText's first statement, given the id held before.
SessionIdAtEditKept(held) == held
SessionIdAtEdit(held) == NULL

\* continueConversation's guard: whether the call goes on to sendMessage.
ContinuePassesAlways(held) == TRUE
ContinuePasses(held) == held # NULL

\* options.resume: set only when a session id is held (NULL: not set).
ResumeOption(held) == IF held # NULL THEN held ELSE NULL

InlineIdle ==
  /\ sessionId = NULL
  /\ abortController = NoController
  /\ resolvedClaudePath = NULL
  /\ runs = [s \in Slots |-> IdleRun]
  /\ lastCall = NoCall
  /\ lastReturn = Failure(NULL)
  /\ initSeen = NoInitSeen

\* new InlineEditService(plugin)
InlineInit == InlineIdle

\* resetConversation()
ResetConversation ==
  /\ sessionId' = NULL
  /\ initSeen' = [initSeen EXCEPT !.sinceClear = NULL]
  /\ UNCHANGED <<abortController, resolvedClaudePath, runs, lastCall, lastReturn>>
  /\ UNCHANGED <<mcpVars, errVars, pathVars, settingsVars, hookVars, envVars, historyVars>>

\* sendMessage(prompt) up to its first await, called by method with session id
\* held in this.sessionId; seen is the init history at that point.  vaultPath
\* is what getVaultPath returns and cliFound whether findClaudeCLI finds the
\* executable.  The call returns early without a query, or opens a stream.
SendMessage(method, held, seen, heldAtCall, vaultPath, cliFound) ==
  LET claudePath == IF resolvedClaudePath # NULL THEN resolvedClaudePath
                    ELSE IF cliFound THEN ClaudePath ELSE NULL
      call == [method |-> method, held |-> heldAtCall, queried |-> FALSE,
               resume |-> NULL, expected |-> seen.sinceEdit,
               returned |-> TRUE, result |-> Failure(NULL)]
  IN  IF vaultPath = NULL
        THEN /\ lastCall' = [call EXCEPT
                               !.result = Failure("Could not determine vault path")]
             /\ UNCHANGED <<abortController, resolvedClaudePath, runs>>
      ELSE IF claudePath = NULL
        THEN /\ lastCall' = [call EXCEPT
                               !.result = Failure("Claude CLI not found. Please install Claude Code CLI.")]
             /\ UNCHANGED <<abortController, resolvedClaudePath, runs>>
      ELSE \E slot \in Slots :
             /\ runs[slot].pc = "idle"
             /\ \A s \in 1..(slot - 1) : runs[s].pc # "idle"
             /\ resolvedClaudePath' = claudePath
             /\ abortController' = slot
             /\ runs' = [runs EXCEPT ![slot] = OpenedRun]
             /\ lastCall' = [call EXCEPT !.queried = TRUE,
                                         !.resume = ResumeOption(held),
                                         !.returned = FALSE]

\* editText(request)
EditText ==
  \E vaultPath \in {NULL, "/v"}, cliFound \in BOOLEAN :
    LET held == SessionIdAtEdit(sessionId)
        seen == NoInitSeen
    IN  /\ sessionId' = held
        /\ initSeen' = seen
        /\ SendMessage("editText", held, seen, seen.sinceClear, vaultPath, cliFound)
        /\ UNCHANGED lastReturn
        /\ UNCHANGED <<mcpVars, errVars, pathVars, settingsVars, hookVars, envVars, historyVars>>

\* continueConversation(message)
ContinueConversation ==
  \E vaultPath \in {NULL, "/v"}, cliFound \in BOOLEAN :
    /\ IF ContinuePasses(sessionId)
         THEN SendMessage("continueConversation", sessionId, initSeen,
                          initSeen.sinceClear, vaultPath, cliFound)
         ELSE /\ lastCall' =
                   [method |-> "continueConversation", held |-> initSeen.sinceClear,
                    queried |-> FALSE, resume |-> NULL,
                    expected |-> initSeen.sinceEdit, returned |-> TRUE,
                    result |-> Failure("No active conversation to continue")]
              /\ UNCHANGED <<abortController, resolvedClaudePath, runs>>
    /\ UNCHANGED <<sessionId, initSeen, lastReturn>>
    /\ UNCHANGED <<mcpVars, errVars, pathVars, settingsVars, hookVars, envVars, historyVars>>

\* Whether the loop's check this.abortController?.signal.aborted is true.
AbortSignalled ==
  abortController # NoController /\ runs[abortController].aborted

\* One iteration of the for-await loop of the run in slot: the stream delivers
\* message.
ReceiveMessage ==
  \E slot \in Slots, message \in SdkMessages :
    /\ runs[slot].pc = "streaming"
    /\ message.text # NULL => Len(runs[slot].chunks) < MaxChunks
    /\ IF AbortSignalled
         THEN /\ runs' = [runs EXCEPT ![slot].pc = "interrupting"]
              /\ UNCHANGED <<sessionId, initSeen>>
         ELSE /\ IF /\ message.type = "system"
                    /\ message.subtype = "init"
                    /\ message.session_id \notin {NULL, ""}
                   THEN /\ sessionId' = message.session_id
                        /\ initSeen' = [sinceEdit |-> message.session_id,
                                        sinceClear |-> message.session_id]
                   ELSE UNCHANGED <<sessionId, initSeen>>
              /\ runs' = [runs EXCEPT ![slot].chunks =
                            IF message.text # NULL THEN Append(@, message.text)
                            ELSE @]
    /\ UNCHANGED <<abortController, resolvedClaudePath, lastCall, lastReturn>>
    /\ UNCHANGED <<mcpVars, errVars, pathVars, settingsVars, hookVars, envVars, historyVars>>

\* The run in slot returns result: its promise settles and its finally block
\* clears this.abortController.
Return(slot, result) ==
  /\ runs' = [runs EXCEPT ![slot] = IdleRun]
  /\ abortController' = NoController
  /\ lastReturn' = result
  /\ UNCHANGED <<sessionId, resolvedClaudePath, lastCall, initSeen>>
  /\ UNCHANGED <<mcpVars, errVars, pathVars, settingsVars, hookVars, envVars, historyVars>>

\* await response.interrupt() settles: the run returns 'Cancelled', or the
\* message of the error interrupt() rejected with.
InterruptSettles ==
  \E slot \in Slots, rejects \in BOOLEAN :
    /\ runs[slot].pc = "interrupting"
    /\ Return(slot, Failure(IF rejects THEN "sdk error" ELSE "Cancelled"))

\* The stream ends: the loop exits and the response text is parsed.
StreamEnds ==
  \E slot \in Slots :
    /\ runs[slot].pc = "streaming"
    /\ Return(slot, ParseResponse(Concat(runs[slot].chunks)))

\* query() or the stream throws: the catch block returns the error's message.
StreamThrows ==
  \E slot \in Slots :
    /\ runs[slot].pc = "streaming"
    /\ Return(slot, Failure("sdk error"))

\* cancel()
Cancel ==
  /\ IF abortController # NoController
       THEN runs' = [runs EXCEPT ![abortController].aborted = TRUE]
       ELSE UNCHANGED runs
  /\ UNCHANGED <<sessionId, abortController, resolvedClaudePath, lastCall,
                 lastReturn, initSeen>>
  /\ UNCHANGED <<mcpVars, errVars, pathVars, settingsVars, hookVars, envVars, historyVars>>

InlineNext ==
  \/ ResetConversation
  \/ EditText
  \/ ContinueConversation
  \/ ReceiveMessage
  \/ InterruptSettles
  \/ StreamEnds
  \/ StreamThrows
  \/ Cancel

\* C9: continueConversation returns {success: false, error: 'No active
\* conversation to continue'} and issues no SDK query whenever no init message
\* with a session id has arrived since the latest of construction,
\* resetConversation() and editText; no session id is held then.
C9_ContinueWithoutSessionFails ==
  /\ initSeen.sinceClear = NULL => sessionId = NULL
  /\ (lastCall.method = "continueConversation" /\ lastCall.held = NULL) =>
       /\ ~lastCall.queried
       /\ lastCall.returned
       /\ lastCall.result = [success |-> FALSE,
                             error |-> "No active conversation to continue",
                             editedText |-> NULL, clarification |-> NULL]

\* continueConversation called after a resetConversation() that followed a
\* conversation with a session id.
C9_Witness ==
  /\ lastCall.method = "continueConversation"
  /\ lastCall.held = NULL
  /\ lastCall.expected # NULL
  /\ ~lastCall.queried

\* C10: every editText query carries no resume option, and every
\* continueConversation query carries as resume the session id of the latest
\* init message since the last editText.
C10_ResumeOnlyOnContinue ==
  lastCall.queried =>
    /\ lastCall.method = "editText" => lastCall.resume = NULL
    /\ lastCall.method = "continueConversation" =>
         lastCall.resume # NULL /\ lastCall.resume = lastCall.expected

\* A continueConversation that opened its stream with resume 's2' after an
\* earlier run of the conversation returned a successful result.
C10_Witness ==
  /\ lastCall.queried
  /\ lastCall.method = "continueConversation"
  /\ lastCall.resume = "s2"
  /\ lastReturn.success

\* C12: when cancel() was called while a single editText or
\* continueConversation query was in flight, that call resolves with
\* {success: false, error: 'Cancelled'} and never with success: true, whatever
\* the stream does afterwards.
C12_CancelledCallResolvesCancelled ==
  [][\A slot \in Slots :
       (/\ runs[slot].pc # "idle"
        /\ runs[slot].aborted
        /\ \A other \in Slots \ {slot} : runs[other].pc = "idle"
        /\ runs'[slot].pc = "idle")
       => (~lastReturn'.success /\ lastReturn'.error = "Cancelled")]_vars

(***************************************************************************)
(* InlineEditService: read-only tools and the PreToolUse hook              *)
(***************************************************************************)

\* The most fragments a tool name is built from.
MaxToolNameParts == 2

READ_ONLY_TOOLS == <<"Read", "Grep", "Glob", "LS", "WebSearch", "WebFetch">>

\* Tool names the SDK may report: the read-only names, names of writing tools,
\* and names that differ from a read-only name in case or by a prefix or suffix.
ToolNames ==
  LET fragments == {"Read", "Grep", "Glob", "LS", "Web", "Search", "Fetch",
                    "Write", "Bash", "read", "ls", " "}
  IN  {Concat(parts) :
         parts \in UNION {[1..n -> fragments] : n \in 0..MaxToolNameParts}}

\* array.includes(x)
ArrayIncludes(array, x) == \E i \in 1..Len(array) : array[i] = x

\* A hook that lets every tool whose name begins with a read-only name pass.
IsReadOnlyToolByPrefix(toolName) ==
  \E i \in 1..Len(READ_ONLY_TOOLS) : StartsWith(toolName, READ_ONLY_TOOLS[i])
\* READ_ONLY_TOOLS.includes(toolName)
IsReadOnlyTool(toolName) == ArrayIncludes(READ_ONLY_TOOLS, toolName)

\* The callback of createReadOnlyHook applied to a hook input with tool_name.
ReadOnlyHook(toolName) ==
  IF IsReadOnlyTool(toolName)
    THEN [continue |-> TRUE, hookEventName |-> NULL, permissionDecision |-> NULL,
          permissionDecisionReason |-> NULL]
    ELSE [continue |-> FALSE, hookEventName |-> "PreToolUse",
          permissionDecision |-> "deny",
          permissionDecisionReason |->
            "Inline edit mode: tool \"" \o toolName \o "\" is not allowed (read-only)"]

\* No query was issued, and the hook was not called.
NoQueryOptions ==
  [issued |-> FALSE, allowedTools |-> <<>>, permissionMode |-> NULL,
   preToolUseHooks |-> 0]
NoHookCall == [called |-> FALSE, toolName |-> "", output |-> ReadOnlyHook("")]

HookIdle ==
  /\ queryOptions = NoQueryOptions
  /\ hookCall = NoHookCall

HookInit == HookIdle

\* sendMessage builds the options of its query: allowedTools is a copy of
\* READ_ONLY_TOOLS and PreToolUse holds the one hook of createReadOnlyHook.
BuildOptions ==
  /\ queryOptions' = [issued |-> TRUE, allowedTools |-> READ_ONLY_TOOLS,
                      permissionMode |-> "bypassPermissions",
                      preToolUseHooks |-> 1]
  /\ UNCHANGED hookCall
  /\ UNCHANGED <<mcpVars, errVars, pathVars, settingsVars, inlineVars, envVars, historyVars>>

\* The SDK calls the installed hook before a tool use.
PreToolUse ==
  \E toolName \in ToolNames :
    /\ queryOptions.issued
    /\ hookCall' = [called |-> TRUE, toolName |-> toolName,
                    output |-> ReadOnlyHook(toolName)]
    /\ UNCHANGED queryOptions
    /\ UNCHANGED <<mcpVars, errVars, pathVars, settingsVars, inlineVars, envVars, historyVars>>

HookNext == BuildOptions \/ PreToolUse

\* C11: the PreToolUse hook returns continue: true exactly for the tool names
\* Read, Grep, Glob, LS, WebSearch, WebFetch and otherwise continue: false with
\* permissionDecision 'deny'; the allowedTools option of the query is exactly
\* that set of names.
C11_HookAllowsExactlyReadOnlyTools ==
  LET readOnly == {"Read", "Grep", "Glob", "LS", "WebSearch", "WebFetch"}
  IN  /\ hookCall.called =>
           /\ hookCall.output.continue <=> hookCall.toolName \in readOnly
           /\ ~hookCall.output.continue =>
                hookCall.output.permissionDecision = "deny"
      /\ queryOptions.issued =>
           /\ {queryOptions.allowedTools[i] :
                 i \in 1..Len(queryOptions.allowedTools)} = readOnly
           /\ queryOptions.preToolUseHooks = 1

\* The hook denied a tool whose name only begins with a read-only name.
C11_Witness ==
  /\ queryOptions.issued
  /\ hookCall.called
  /\ hookCall.toolName = "ReadWrite"
  /\ ~hookCall.output.continue
  /\ hookCall.output.permissionDecision = "deny"

(***************************************************************************)
(* parseEnvironmentVariables                                               *)
(***************************************************************************)

\* The most characters of one line, and the most lines, of an input text.
MaxEnvLineLength == 3
MaxEnvLines == 2

\* array.join(separator)
RECURSIVE JoinWith(_, _)
JoinWith(array, separator) ==
  IF array = <<>> THEN ""
  ELSE IF Len(array) = 1 THEN array[1]
  ELSE array[1] \o separator \o JoinWith(Tail(array), separator)

\* The input texts: lines of the characters below, joined by newlines.
EnvTexts ==
  LET chars == {"A", "=", "#", " ", "\"", "'"}
      lines == {Concat(cs) :
                  cs \in UNION {[1..n -> chars] : n \in 0..MaxEnvLineLength}}
  IN  {JoinWith(ls, "\n") :
         ls \in UNION {[1..n -> lines] : n \in 1..MaxEnvLines}}

\* input.split(separator) for a one-character separator: empty pieces kept.
RECURSIVE SplitOnLoop(_, _, _, _)
SplitOnLoop(s, separator, cur, acc) ==
  IF s = "" THEN Append(acc, cur)
  ELSE IF SubSeq(s, 1, 1) = separator
    THEN SplitOnLoop(StrFrom(s, 2), separator, "", Append(acc, cur))
  ELSE SplitOnLoop(StrFrom(s, 2), separator, cur \o SubSeq(s, 1, 1), acc)

SplitOn(s, separator) == SplitOnLoop(s, separator, "", <<>>)

\* s.endsWith(p)
EndsWith(s, p) ==
  Len(p) <= Len(s) /\ SubSeq(s, Len(s) - Len(p) + 1, Len(s)) = p

\* s.slice(1, -1)
SliceInner(s) == IF Len(s) < 2 THEN "" ELSE SubSeq(s, 2, Len(s) - 1)

\* The quote-stripping statement: a value that starts and ends with the same
\* quote character loses its first and last character.
StripQuotes(value) ==
  IF \/ StartsWith(value, "\"") /\ EndsWith(value, "\"")
     \/ StartsWith(value, "'") /\ EndsWith(value, "'")
    THEN SliceInner(value)
    ELSE value

\* The body of the loop for one line, given the result so far.
ParseEnvLine(result, line) ==
  LET trimmed == Trim(line)
      eqIndex == IndexOf(trimmed, "=", 1) - 1
      key == Trim(SubSeq(trimmed, 1, eqIndex))
      value == StripQuotes(Trim(StrFrom(trimmed, eqIndex + 2)))
  IN  IF trimmed = "" \/ StartsWith(trimmed, "#") THEN result
      ELSE IF eqIndex > 0 /\ key # "" THEN RecordSet(result, key, value)
      ELSE result

RECURSIVE ParseEnvLoop(_, _, _)
ParseEnvLoop(lines, i, result) ==
  IF i > Len(lines) THEN result
  ELSE ParseEnvLoop(lines, i + 1, ParseEnvLine(result, lines[i]))

\* parseEnvironmentVariables(input)
ParseEnvironmentVariables(input) ==
  ParseEnvLoop(SplitOn(input, "\n"), 1, EmptyRecord)

NoEnvCall == [called |-> FALSE, result |-> EmptyRecord]

EnvIdle ==
  /\ envInput = ""
  /\ envCall = NoEnvCall

EnvInit ==
  /\ envInput \in EnvTexts
  /\ envCall = NoEnvCall

\* parseEnvironmentVariables(envInput)
CallParseEnvironmentVariables ==
  /\ ~envCall.called
  /\ envCall' = [called |-> TRUE, result |-> ParseEnvironmentVariables(envInput)]
  /\ UNCHANGED envInput
  /\ UNCHANGED <<mcpVars, errVars, pathVars, settingsVars, inlineVars, hookVars, historyVars>>

EnvNext == CallParseEnvironmentVariables

\* The lines of a text that count as KEY=VALUE lines: not blank, not a
\* comment, not starting with '=', with '=' somewhere after the first
\* character of the trimmed line.
C13_IsPairLine(line) ==
  LET t == Trim(line)
  IN  /\ t # ""
      /\ SubSeq(t, 1, 1) \notin {"#", "="}
      /\ \E p \in 2..Len(t) : SubSeq(t, p, p) = "="

C13_FirstEq(t) == CHOOSE p \in 1..Len(t) :
                    SubSeq(t, p, p) = "=" /\ \A q \in 1..(p - 1) : SubSeq(t, q, q) # "="

C13_KeyOf(line) == LET t == Trim(line) IN Trim(SubSeq(t, 1, C13_FirstEq(t) - 1))

\* The trimmed text after the first '=', without one pair of matching
\* surrounding quotes.
C13_ValueOf(line) ==
  LET t == Trim(line)
      v == Trim(SubSeq(t, C13_FirstEq(t) + 1, Len(t)))
      quoted == /\ Len(v) >= 2
                /\ SubSeq(v, 1, 1) = SubSeq(v, Len(v), Len(v))
                /\ SubSeq(v, 1, 1) \in {"\"", "'"}
  IN  IF quoted THEN SubSeq(v, 2, Len(v) - 1) ELSE v

\* C13: parseEnvironmentVariables returns exactly the pairs of the KEY=VALUE
\* lines: key and value as above, other lines ignored, the last line of a key
\* deciding its value.
C13_ParsesExactlyThePairs ==
  envCall.called =>
    LET lines == SplitOn(envInput, "\n")
        pairLines == {i \in 1..Len(lines) : C13_IsPairLine(lines[i])}
        keys == {C13_KeyOf(lines[i]) : i \in pairLines}
        lastOf(k) == CHOOSE i \in pairLines :
                       /\ C13_KeyOf(lines[i]) = k
                       /\ \A j \in pairLines : C13_KeyOf(lines[j]) = k => j <= i
    IN  /\ DOMAIN envCall.result = keys
        /\ \A k \in keys : envCall.result[k] = C13_ValueOf(lines[lastOf(k)])

(***************************************************************************)
(* buildContextFromHistory (history reconstruction)                        *)
(***************************************************************************)

\* The most messages of a history.
MaxMessages == 2

\* The default of maxResultLength / maxLength.
MaxResultLength == 800

RECURSIVE Repeat(_, _)
Repeat(s, n) ==
  IF n = 0 THEN ""
  ELSE IF n % 2 = 0 THEN LET half == Repeat(s, n \div 2) IN half \o half
  ELSE s \o Repeat(s, n - 1)

\* A tool result one character longer than the truncation limit.
LongResult == Repeat("r", MaxResultLength + 1)

\* ToolCallInfo: name, status and result; NULL for an absent status or result.
ToolCall(status, result) == [name |-> "Read", status |-> status, result |-> result]

\* message.toolCalls: absent, or an array of tool calls.
NoToolCalls == [defined |-> FALSE, items |-> <<>>]
ToolCallsOf(items) == [defined |-> TRUE, items |-> items]

\* ChatMessage: role, content, contextFiles (absent and empty alike: <<>>)
\* and toolCalls.
ChatMessage(role, content, contextFiles, toolCalls) ==
  [role |-> role, content |-> content, contextFiles |-> contextFiles,
   toolCalls |-> toolCalls]

ChatMessages ==
  LET contents == {"", " ", " hi ", "yo"}
      assistantToolCalls ==
        {NoToolCalls, ToolCallsOf(<<>>),
         ToolCallsOf(<<ToolCall(NULL, NULL)>>),
         ToolCallsOf(<<ToolCall("error", " ")>>),
         ToolCallsOf(<<ToolCall(NULL, "ok")>>),
         ToolCallsOf(<<ToolCall("running", ""), ToolCall("completed", " ok ")>>),
         ToolCallsOf(<<ToolCall(NULL, LongResult)>>)}
  IN  {ChatMessage("user", c, f, t) :
         c \in contents, f \in {<<>>, <<"a.md", "b.md">>},
         t \in {NoToolCalls, ToolCallsOf(<<ToolCall(NULL, "ok")>>)}}
      \cup {ChatMessage("assistant", c, <<>>, t) :
              c \in contents, t \in assistantToolCalls}
      \cup {ChatMessage("assistant", c, <<"a.md">>, NoToolCalls) :
              c \in {"", " hi "}}
      \cup {ChatMessage("system", " hi ", <<>>, t) :
              t \in {NoToolCalls, ToolCallsOf(<<ToolCall(NULL, "ok")>>)}}

Histories == UNION {[1..n -> ChatMessages] : n \in 0..MaxMessages}

\* Whether a string-valued property is there and has non-blank text.
HasText(s) == s # NULL /\ s # "" /\ Len(Trim(s)) > 0

\* truncateToolResult(result, maxLength)
TruncateToolResult(result, maxLength) ==
  IF Len(result) > maxLength
    THEN SubSeq(result, 1, maxLength) \o "... (truncated)"
    ELSE result

\* formatToolCallForContext(toolCall)
FormatToolCallForContext(toolCall) ==
  LET status == IF toolCall.status = NULL THEN "completed" ELSE toolCall.status
      base == "[Tool " \o toolCall.name \o " status=" \o status \o "]"
      hasResult == toolCall.result # NULL /\ Len(Trim(toolCall.result)) > 0
  IN  IF ~hasResult THEN base
      ELSE base \o " result: " \o TruncateToolResult(toolCall.result, MaxResultLength)

\* formatContextFilesLine(files)
FormatContextFilesLine(files) == "Context files: [" \o JoinWith(files, ", ") \o "]"

\* formatContextLine(message): NULL without context files.
FormatContextLine(message) ==
  IF message.contextFiles = <<>> THEN NULL
  ELSE FormatContextFilesLine(message.contextFiles)

\* A test that looks at the content only.
AssistantIsEmptyByContent(message) == ~HasText(message.content)
\* The test under which an assistant message is skipped: !hasContent &&
\* !hasToolResult.
AssistantIsEmpty(message) ==
  LET hasContent == HasText(message.content)
      hasToolResult ==
        /\ message.toolCalls.defined
        /\ \E i \in 1..Len(message.toolCalls.items) :
             HasText(message.toolCalls.items[i].result)
  IN  ~hasContent /\ ~hasToolResult

\* The block built for a message that is not skipped.
MessageBlock(message) ==
  LET role == IF message.role = "user" THEN "User" ELSE "Assistant"
      content == IF message.content = NULL THEN NULL ELSE Trim(message.content)
      hasContent == content # NULL /\ content # ""
      contextLine == FormatContextLine(message)
      userPayload ==
        IF contextLine # NULL
          THEN IF hasContent THEN contextLine \o "\n\n" \o content ELSE contextLine
          ELSE IF hasContent THEN content ELSE ""
      first == IF userPayload # "" THEN role \o ": " \o userPayload
               ELSE role \o ":"
      toolLines ==
        IF /\ message.role = "assistant"
           /\ message.toolCalls.defined
           /\ Len(message.toolCalls.items) > 0
          THEN [i \in 1..Len(message.toolCalls.items) |->
                  FormatToolCallForContext(message.toolCalls.items[i])]
          ELSE <<>>
  IN  JoinWith(<<first>> \o toolLines, "\n")

\* The for loop: parts after the messages from index i on.
RECURSIVE BuildContextLoop(_, _, _)
BuildContextLoop(messages, i, parts) ==
  IF i > Len(messages) THEN parts
  ELSE LET message == messages[i]
       IN  IF message.role # "user" /\ message.role # "assistant"
             THEN BuildContextLoop(messages, i + 1, parts)
           ELSE IF message.role = "assistant" /\ AssistantIsEmpty(message)
             THEN BuildContextLoop(messages, i + 1, parts)
           ELSE BuildContextLoop(messages, i + 1,
                                 Append(parts, MessageBlock(message)))

\* buildContextFromHistory(messages)
BuildContextFromHistory(messages) ==
  JoinWith(BuildContextLoop(messages, 1, <<>>), "\n\n")

NoHistoryCall == [called |-> FALSE, parts |-> <<>>, result |-> ""]

HistoryIdle ==
  /\ history = <<>>
  /\ historyCall = NoHistoryCall

HistoryInit ==
  /\ history \in Histories
  /\ historyCall = NoHistoryCall

\* buildContextFromHistory(history)
CallBuildContextFromHistory ==
  /\ ~historyCall.called
  /\ historyCall' = [called |-> TRUE,
                     parts |-> BuildContextLoop(history, 1, <<>>),
                     result |-> BuildContextFromHistory(history)]
  /\ UNCHANGED history
  /\ UNCHANGED <<mcpVars, errVars, pathVars, settingsVars, inlineVars, hookVars,
                 envVars>>

HistoryNext == CallBuildContextFromHistory

\* Whether text is there and is not blank, character by character.
C15_NonBlank(s) ==
  s # NULL /\ \E p \in 1..Len(s) : SubSeq(s, p, p) \notin {" ", "\n", "\t"}

\* The text of s from its first to its last non-blank character.
C15_Core(s) ==
  LET inked == {p \in 1..Len(s) : SubSeq(s, p, p) \notin {" ", "\n", "\t"}}
      first == CHOOSE p \in inked : \A q \in inked : p <= q
      last == CHOOSE p \in inked : \A q \in inked : q <= p
  IN  SubSeq(s, first, last)

\* The messages the claim retains: every user message, and the assistant
\* messages with non-blank content or a tool call with a non-blank result.
C15_Retained(message) ==
  \/ message.role = "user"
  \/ /\ message.role = "assistant"
     /\ \/ C15_NonBlank(message.content)
        \/ /\ message.toolCalls.defined
           /\ \E i \in 1..Len(message.toolCalls.items) :
                C15_NonBlank(message.toolCalls.items[i].result)

\* C15: buildContextFromHistory emits one block per retained message, in the
\* original order and joined by blank lines; messages of other roles and
\* assistant messages without non-blank content and without a non-blank tool
\* result are dropped, every user message is retained ('User:' when it has no
\* content and no context files), and tool-call lines appear only in
\* assistant blocks.
C15_OneBlockPerRetainedMessage ==
  historyCall.called =>
    LET retained == SelectSeq(history, C15_Retained)
        parts == historyCall.parts
    IN  /\ Len(parts) = Len(retained)
        /\ historyCall.result = JoinWith(parts, "\n\n")
        /\ \A i \in 1..Len(retained) :
             LET message == retained[i]
             IN  /\ message.role = "user" => StartsWith(parts[i], "User:")
                 /\ message.role = "assistant" => StartsWith(parts[i], "Assistant:")
                 /\ C15_NonBlank(message.content) =>
                      Includes(parts[i], ": " \o C15_Core(message.content))
                      \/ Includes(parts[i], "\n\n" \o C15_Core(message.content))
                 /\ (/\ message.role = "user"
                     /\ ~C15_NonBlank(message.content)
                     /\ message.contextFiles = <<>>) => parts[i] = "User:"
                 /\ Includes(parts[i], "[Tool ") =>
                      /\ message.role = "assistant"
                      /\ message.toolCalls.defined
                      /\ Len(message.toolCalls.items) > 0

\* A history of an assistant message kept for its tool result alone and a
\* user message without content or context files.
C15_Witness ==
  /\ historyCall.called
  /\ Len(history) = 2
  /\ history[1].role = "assistant"
  /\ ~C15_NonBlank(history[1].content)
  /\ history[2].role = "user"
  /\ Len(historyCall.parts) = 2
  /\ Includes(historyCall.parts[1], "[Tool Read status=completed] result: ok")
  /\ historyCall.parts[2] = "User:"

(***************************************************************************)
(* Specifications                                                          *)
(***************************************************************************)

\* McpService alone.
InitMcp == McpInit /\ ErrIdle /\ PathIdle /\ SettingsIdle /\ InlineIdle /\ HookIdle /\ EnvIdle /\ HistoryIdle
SpecMcp == InitMcp /\ [][McpNext]_vars

\* isSessionExpiredError alone.
InitSessionError == ErrInit /\ McpIdle /\ PathIdle /\ SettingsIdle /\ InlineIdle /\ HookIdle /\ EnvIdle /\ HistoryIdle
SpecSessionError == InitSessionError /\ [][ErrNext]_vars

\* isPathWithinVault alone.
InitVault == VaultInit /\ McpIdle /\ ErrIdle /\ SettingsIdle /\ InlineIdle /\ HookIdle /\ EnvIdle /\ HistoryIdle
SpecVault == InitVault /\ [][VaultNext]_vars

\* isPathInAllowedExportPaths alone.
InitExport == ExportInit /\ McpIdle /\ ErrIdle /\ SettingsIdle /\ InlineIdle /\ HookIdle /\ EnvIdle /\ HistoryIdle
SpecExport == InitExport /\ [][ExportNext]_vars

\* resolveRealPath alone, step by step.
InitResolve == ResolveInit /\ McpIdle /\ ErrIdle /\ SettingsIdle /\ InlineIdle /\ HookIdle /\ EnvIdle /\ HistoryIdle
SpecResolve == InitResolve /\ [][ResolveNext]_vars

\* SettingsStorage alone.
InitSettings == SettingsInit /\ McpIdle /\ ErrIdle /\ PathIdle /\ InlineIdle /\ HookIdle /\ EnvIdle /\ HistoryIdle
SpecSettings == InitSettings /\ [][SettingsNext]_vars

\* InlineEditService alone.
InitInline == InlineInit /\ McpIdle /\ ErrIdle /\ PathIdle /\ SettingsIdle /\ HookIdle /\ EnvIdle /\ HistoryIdle
SpecInline == InitInline /\ [][InlineNext]_vars

\* The read-only hook of InlineEditService alone.
InitHook == HookInit /\ McpIdle /\ ErrIdle /\ PathIdle /\ SettingsIdle /\ InlineIdle /\ EnvIdle /\ HistoryIdle
SpecHook == InitHook /\ [][HookNext]_vars

\* parseEnvironmentVariables alone.
InitEnv ==
  /\ EnvInit
  /\ McpIdle /\ ErrIdle /\ PathIdle /\ SettingsIdle /\ InlineIdle /\ HookIdle
  /\ HistoryIdle
SpecEnv == InitEnv /\ [][EnvNext]_vars

\* buildContextFromHistory alone.
InitHistory ==
  /\ HistoryInit
  /\ McpIdle /\ ErrIdle /\ PathIdle /\ SettingsIdle /\ InlineIdle /\ HookIdle
  /\ EnvIdle
SpecHistory == InitHistory /\ [][HistoryNext]_vars

====
